---- MODULE Spec2Model ----
(***************************************************************************)
(* A model of weather_analysis.py: the cleaning of the loaded weather      *)
(* table, the statistics, the month and season grouping, the export and    *)
(* the summary report, as main() runs them.                                *)
(*                                                                         *)
(* A table (a pandas DataFrame) is a record                                *)
(*     [cols |-> column names, index |-> row labels, rows |-> rows]        *)
(* and a row is a function from column name to cell.  A measurement cell   *)
(* is a number (an exact rational <<n, d>> standing for the float), a      *)
(* text (a sequence of characters) or missing (NaN).  A Date cell is a     *)
(* Timestamp, a text (its <<year, month, day>> fields as written) or       *)
(* missing (NaN / NaT).                                                    *)
(***************************************************************************)
EXTENDS Integers, Sequences, FiniteSets, TLC

VARIABLES pc, raw, df, col_i, again, stats, files, gdf,
          monthly_stats, season_stats, csv, report, err

vars == <<pc, raw, df, col_i, again, stats, files, gdf,
          monthly_stats, season_stats, csv, report, err>>

\* Bounds of the model: the number of rows of an input table.
MaxRows == 3
MaxMainRows == 3
MaxSeasonRows == 2

Range(s) == {s[k] : k \in 1..Len(s)}

(***************************************************************************)
(* Numbers: exact rationals in lowest terms with a positive denominator.   *)
(***************************************************************************)
Abs(x) == IF x < 0 THEN -x ELSE x

RECURSIVE Gcd(_, _)
Gcd(a, b) == IF b = 0 THEN a ELSE Gcd(b, a % b)

Rat(n, d) == LET g == Gcd(Abs(n), d) IN <<n \div g, d \div g>>

RatAdd(a, b) == Rat(a[1] * b[2] + b[1] * a[2], a[2] * b[2])

RatDivInt(a, k) == Rat(a[1], a[2] * k)

RatLess(a, b) == a[1] * b[2] < b[1] * a[2]

(***************************************************************************)
(* Cells.                                                                  *)
(***************************************************************************)
NaN == [k |-> "nan", v |-> <<0, 1>>, s |-> <<>>]
NumR(r) == [k |-> "num", v |-> r, s |-> <<>>]
Num(n) == NumR(<<n, 1>>)
Str(chars) == [k |-> "str", v |-> <<0, 1>>, s |-> chars]

NaT == [k |-> "nan", f |-> <<0, 0, 0>>]
Ts(y, m, d) == [k |-> "ts", f |-> <<y, m, d>>]
DateStr(y, m, d) == [k |-> "str", f |-> <<y, m, d>>]

isna(c) == c.k = "nan"

(***************************************************************************)
(* pd.to_numeric(errors="coerce") on one cell: a number stays, a text of   *)
(* decimal digits is read as that number, anything else becomes NaN.       *)
(***************************************************************************)
Digits == <<"0", "1", "2", "3", "4", "5", "6", "7", "8", "9">>

IsDigit(ch) == \E k \in 1..Len(Digits) : Digits[k] = ch

DigitVal(ch) == (CHOOSE k \in 1..Len(Digits) : Digits[k] = ch) - 1

RECURSIVE ParseDigits(_, _)
ParseDigits(s, acc) ==
    IF s = <<>> THEN acc ELSE ParseDigits(Tail(s), acc * Len(Digits) + DigitVal(Head(s)))

to_numeric(c) ==
    IF c.k = "num" THEN c
    ELSE IF c.k = "str" /\ c.s # <<>> /\ \A k \in 1..Len(c.s) : IsDigit(c.s[k])
         THEN Num(ParseDigits(c.s, 0))
         ELSE NaN

(***************************************************************************)
(* pd.to_datetime(errors="coerce") on one cell: a Timestamp stays, a text  *)
(* that names a calendar date becomes its Timestamp, anything else NaT.    *)
(***************************************************************************)
IsLeap(y) == (y % 4 = 0 /\ y % 100 # 0) \/ y % 400 = 0

DaysInMonth(y, m) ==
    IF m = 2 THEN (IF IsLeap(y) THEN 29 ELSE 28)
    ELSE IF m \in {4, 6, 9, 11} THEN 30 ELSE 31

ValidDate(f) == f[2] \in 1..12 /\ f[3] \in 1..DaysInMonth(f[1], f[2])

to_datetime(c) ==
    IF c.k = "ts" THEN c
    ELSE IF c.k = "str" /\ ValidDate(c.f) THEN Ts(c.f[1], c.f[2], c.f[3])
    ELSE NaT

(***************************************************************************)
(* Table operations.                                                       *)
(***************************************************************************)
NoTable == [cols |-> <<>>, index |-> <<>>, rows |-> <<>>]

Positions(t) == [k \in 1..Len(t.rows) |-> k]

\* The table restricted to the row positions pos, labels kept.
TakeRows(t, pos) ==
    [cols |-> t.cols,
     index |-> [j \in 1..Len(pos) |-> t.index[pos[j]]],
     rows |-> [j \in 1..Len(pos) |-> t.rows[pos[j]]]]

Column(rows, c) == [k \in 1..Len(rows) |-> rows[k][c]]

\* df["Date"] = pd.to_datetime(df["Date"], errors="coerce")
coerce_Date(t) ==
    [t EXCEPT !.rows = [k \in 1..Len(t.rows) |->
                          [t.rows[k] EXCEPT !["Date"] = to_datetime(@)]]]

\* df[c] = pd.to_numeric(df[c], errors="coerce")
coerce_numeric(t, c) ==
    [t EXCEPT !.rows = [k \in 1..Len(t.rows) |->
                          [t.rows[k] EXCEPT ![c] = to_numeric(@)]]]

\* Variant: df.dropna(how="any").
dropna_any(t) ==
    TakeRows(t, SelectSeq(Positions(t),
                          LAMBDA k : \A c \in Range(t.cols) : ~isna(t.rows[k][c])))

\* df.dropna(how="all")
dropna_all(t) ==
    TakeRows(t, SelectSeq(Positions(t),
                          LAMBDA k : \E c \in Range(t.cols) : ~isna(t.rows[k][c])))

\* Variant: the rows with NaT are not dropped.
keep_all_rows(t) == t

\* df.dropna(subset=["Date"])
dropna_Date(t) ==
    TakeRows(t, SelectSeq(Positions(t), LAMBDA k : ~isna(t.rows[k]["Date"])))

KnownCols == <<"Date", "Temperature", "Rainfall", "Humidity">>
Measurements == <<"Temperature", "Rainfall", "Humidity">>

\* df[[c for c in cols if c in df.columns]]
select_known(t) ==
    LET keep == SelectSeq(KnownCols, LAMBDA c : c \in Range(t.cols))
    IN  [cols |-> keep,
         index |-> t.index,
         rows |-> [k \in 1..Len(t.rows) |-> [c \in Range(keep) |-> t.rows[k][c]]]]

(***************************************************************************)
(* Series aggregations, NaN skipped as pandas does.                        *)
(***************************************************************************)
Valid(series) == SelectSeq(series, LAMBDA c : c.k = "num")

RECURSIVE SumRat(_)
SumRat(s) == IF s = <<>> THEN <<0, 1>> ELSE RatAdd(s[1].v, SumRat(Tail(s)))

\* Series.sum(): 0 when there is no valid value.
Sum(series) == NumR(SumRat(Valid(series)))

\* Variant: 0 for a series with no valid value.
MeanOrZero(series) ==
    IF Valid(series) = <<>> THEN Num(0)
    ELSE NumR(RatDivInt(SumRat(Valid(series)), Len(Valid(series))))

\* Series.mean(): NaN when there is no valid value.
Mean(series) ==
    IF Valid(series) = <<>> THEN NaN
    ELSE NumR(RatDivInt(SumRat(Valid(series)), Len(Valid(series))))

\* Series.max() / Series.min(): NaN when there is no valid value.
Max(series) ==
    LET v == Valid(series)
    IN  IF v = <<>> THEN NaN
        ELSE CHOOSE c \in Range(v) : \A o \in Range(v) : ~RatLess(c.v, o.v)

Min(series) ==
    LET v == Valid(series)
    IN  IF v = <<>> THEN NaN
        ELSE CHOOSE c \in Range(v) : \A o \in Range(v) : ~RatLess(o.v, c.v)

\* df[c] = df[c].fillna(value)
fillna(t, c, value) ==
    [t EXCEPT !.rows = [k \in 1..Len(t.rows) |->
                          [t.rows[k] EXCEPT ![c] = IF isna(@) THEN value ELSE @]]]

\* Variant: the mean divides by the number of rows, missing cells included.
fill_column_mean_of_all_rows(t, c) ==
    IF c \notin Range(t.cols) THEN t
    ELSE LET coerced == coerce_numeric(t, c)
             series == Column(coerced.rows, c)
             mean_value == IF series = <<>> THEN NaN
                           ELSE NumR(RatDivInt(SumRat(Valid(series)), Len(series)))
         IN  fillna(coerced, c, mean_value)

\* One iteration of the loop of clean_weather_data over the measurements.
fill_column(t, c) ==
    IF c \notin Range(t.cols) THEN t
    ELSE LET coerced == coerce_numeric(t, c)
             mean_value == Mean(Column(coerced.rows, c))
         IN  fillna(coerced, c, mean_value)

\* clean_weather_data as one function of its argument.
clean_weather_data(t) ==
    LET d57 == dropna_all(t)
        d60 == coerce_Date(d57)
        d61 == dropna_Date(d60)
        d65 == select_known(d61)
    IN  fill_column(fill_column(fill_column(d65, Measurements[1]),
                                Measurements[2]), Measurements[3])

\* df.reset_index(drop=True)
reset_index(t) == [t EXCEPT !.index = [k \in 1..Len(t.rows) |-> k - 1]]

(***************************************************************************)
(* compute_statistics: the resampled views.  A period with no row (a NaN   *)
(* row of the pandas result) is not represented, and the standard          *)
(* deviation (a square root) is left out of the aggregates.                *)
(***************************************************************************)
DayOf(c) == c.f
MonthEndOf(c) == <<c.f[1], c.f[2]>>
YearEndOf(c) == <<c.f[1]>>

\* df.set_index("Date"): the Date cells become the row labels.
set_index_Date(t) ==
    [cols |-> SelectSeq(t.cols, LAMBDA c : c # "Date"),
     index |-> Column(t.rows, "Date"),
     rows |-> [k \in 1..Len(t.rows) |-> [c \in Range(t.cols) \ {"Date"} |-> t.rows[k][c]]]]

\* The rows of t whose period (periods[k] for row k) is key.
PeriodRows(t, periods, key) ==
    LET pos == SelectSeq(Positions(t), LAMBDA k : periods[k] = key)
    IN  [j \in 1..Len(pos) |-> t.rows[pos[j]]]

MeanMinMax(series) == [mean |-> Mean(series), min |-> Min(series), max |-> Max(series)]

\* df.resample("D").mean()
resample_daily(t) ==
    LET periods == [k \in 1..Len(t.rows) |-> DayOf(t.index[k])]
    IN  [key \in Range(periods) |->
            [c \in Range(t.cols) |-> Mean(Column(PeriodRows(t, periods, key), c))]]

\* df.resample("M").agg(["mean", "min", "max", "std"])
resample_monthly(t) ==
    LET periods == [k \in 1..Len(t.rows) |-> MonthEndOf(t.index[k])]
    IN  [key \in Range(periods) |->
            [c \in Range(t.cols) |-> MeanMinMax(Column(PeriodRows(t, periods, key), c))]]

\* df.resample("Y").agg(["mean", "min", "max", "std"])
resample_yearly(t) ==
    LET periods == [k \in 1..Len(t.rows) |-> YearEndOf(t.index[k])]
    IN  [key \in Range(periods) |->
            [c \in Range(t.cols) |-> MeanMinMax(Column(PeriodRows(t, periods, key), c))]]

compute_statistics(t) ==
    LET indexed == set_index_Date(t)
    IN  [daily |-> resample_daily(indexed),
         monthly |-> resample_monthly(indexed),
         yearly |-> resample_yearly(indexed)]

(***************************************************************************)
(* Grouping by month and season.                                           *)
(***************************************************************************)
Seasons == {"Winter", "Spring", "Summer", "Autumn"}

\* Variant: Series.dt.day.
dt_day(c) == c.f[3]

\* Series.dt.month of one Timestamp
dt_month(c) == c.f[2]

\* Variant: every season one month early.
month_to_season_shifted(month) ==
    IF month \in {11, 12, 1} THEN "Winter"
    ELSE IF month \in {2, 3, 4} THEN "Spring"
    ELSE IF month \in {5, 6, 7} THEN "Summer"
    ELSE "Autumn"

month_to_season(month) ==
    IF month \in {12, 1, 2} THEN "Winter"
    ELSE IF month \in {3, 4, 5} THEN "Spring"
    ELSE IF month \in {6, 7, 8} THEN "Summer"
    ELSE "Autumn"

add_season_column(t) ==
    [cols |-> t.cols \o <<"Month", "Season">>,
     index |-> t.index,
     rows |-> [k \in 1..Len(t.rows) |->
                 [c \in Range(t.cols) \cup {"Month", "Season"} |->
                     IF c = "Month" THEN dt_month(t.rows[k]["Date"])
                     ELSE IF c = "Season"
                          THEN month_to_season(dt_month(t.rows[k]["Date"]))
                          ELSE t.rows[k][c]]]]

\* Variant: "Rainfall": "mean".
group_stats_all_means(rows) ==
    [Temperature |-> Mean(Column(rows, "Temperature")),
     Rainfall |-> Mean(Column(rows, "Rainfall")),
     Humidity |-> Mean(Column(rows, "Humidity"))]

\* .agg({"Temperature": "mean", "Rainfall": "sum", "Humidity": "mean"})
group_stats(rows) ==
    [Temperature |-> Mean(Column(rows, "Temperature")),
     Rainfall |-> Sum(Column(rows, "Rainfall")),
     Humidity |-> Mean(Column(rows, "Humidity"))]

\* df.groupby(by).agg(...): one entry per value of the column that occurs.
groupby(t, by) ==
    [key \in {t.rows[k][by] : k \in 1..Len(t.rows)} |->
        group_stats(SelectSeq(t.rows, LAMBDA r : r[by] = key))]

(***************************************************************************)
(* Export and report.                                                      *)
(***************************************************************************)
\* A cell as to_csv writes it: a Timestamp as its ISO date, NaN as an empty
\* field.  The decimal text of a float is not modelled: a number stays.
csv_field(c) ==
    IF c.k = "ts" THEN DateStr(c.f[1], c.f[2], c.f[3])
    ELSE IF c.k = "nan" THEN Str(<<>>)
    ELSE c

\* df.to_csv(filepath, index=False)
to_csv(t) ==
    [header |-> t.cols,
     lines |-> [k \in 1..Len(t.rows) |->
                  [j \in 1..Len(t.cols) |-> csv_field(t.rows[k][t.cols[j]])]]]

\* Variant: the label of the last row holding the maximum.
idxmax_last(t, c) ==
    LET series == Column(t.rows, c)
        top == Max(series)
    IN  t.index[CHOOSE k \in 1..Len(series) :
                   /\ series[k] = top
                   /\ \A j \in (k + 1)..Len(series) : series[j] # top]

\* df[c].idxmax(): the label of the first row holding the maximum.
idxmax(t, c) ==
    LET series == Column(t.rows, c)
        top == Max(series)
    IN  t.index[CHOOSE k \in 1..Len(series) :
                   /\ series[k] = top
                   /\ \A j \in 1..(k - 1) : series[j] # top]

\* df.loc[label, c] where the labels are unique.
loc(t, label, c) == t.rows[CHOOSE k \in 1..Len(t.rows) : t.index[k] = label][c]

\* Timestamp.date() as the report prints it.
date_text(c) == DateStr(c.f[1], c.f[2], c.f[3])

(***************************************************************************)
(* The input tables: what load_weather_data returns.  A csv file has       *)
(* other columns beside the four known ones; Station stands for them.      *)
(***************************************************************************)
RawCols == <<"Station", "Date", "Temperature", "Rainfall", "Humidity">>

Row(date, t, r, h, st) ==
    [Date |-> date, Temperature |-> t, Rainfall |-> r, Humidity |-> h, Station |-> st]

bad == Str(<<"b", "a", "d">>)
StationA == Str(<<"A">>)

\* Records for the cleaning: clean ones, an entirely empty one, one with
\* only the extra column filled, unparseable dates, non-numeric and missing
\* measurements, numbers written as text.
CleanInputRows ==
    { Row(DateStr(2023, 1, 5), Num(10), Num(0), Num(50), StationA),
      Row(DateStr(2023, 1, 6), bad, Num(5), Num(60), StationA),
      Row(DateStr(2023, 2, 1), Num(20), Num(10), Num(70), StationA),
      Row(NaT, NaN, NaN, NaN, NaN),
      Row(NaT, NaN, NaN, NaN, StationA),
      Row(DateStr(2023, 2, 30), Num(40), Num(30), Num(90), StationA),
      Row(DateStr(2023, 13, 1), bad, Num(4), NaN, NaN),
      Row(DateStr(2023, 1, 5), NaN, NaN, NaN, NaN),
      Row(DateStr(2023, 2, 1), Str(<<"2", "0">>), bad, NaN, StationA),
      Row(DateStr(2024, 2, 29), Num(25), Str(<<"7">>), bad, NaN),
      Row(DateStr(2023, 1, 6), NaN, Num(1), Str(<<"5", "5">>), StationA) }

\* Records for the whole pipeline: several months, seasons and years, equal
\* rainfall on different days, and some of the defects above.
MainInputRows ==
    { Row(DateStr(2023, 1, 5), Num(10), Num(0), Num(50), StationA),
      Row(DateStr(2023, 1, 6), bad, Num(5), Num(60), StationA),
      Row(DateStr(2023, 2, 1), Num(20), Num(10), Num(70), StationA),
      Row(DateStr(2024, 1, 5), Num(30), Num(10), Num(40), StationA),
      Row(DateStr(2023, 7, 15), Num(25), Str(<<"1", "0">>), NaN, NaN),
      Row(DateStr(2022, 12, 31), Num(5), Num(5), Num(55), StationA),
      Row(DateStr(2023, 4, 10), Num(15), NaN, Num(65), StationA),
      Row(DateStr(2023, 10, 20), NaN, bad, bad, StationA),
      Row(NaT, NaN, NaN, NaN, NaN),
      Row(DateStr(2023, 2, 30), Num(40), Num(30), Num(90), StationA) }

\* Records for the season column: every month of two years.
SeasonInputRows ==
    { Row(DateStr(y, m, 15), Num(m), Num(y - 2020), Num(50), StationA) :
        y \in {2023, 2024}, m \in 1..12 }

\* The tables of at most n rows drawn from rowset, as read_csv labels them.
Tables(rowset, n) ==
    { [cols |-> RawCols, index |-> [k \in 1..Len(rs) |-> k - 1], rows |-> rs] :
        rs \in UNION { [1..len -> rowset] : len \in 0..n } }

Pngs == {"temp_trend.png", "monthly_rainfall.png",
         "humidity_vs_temperature.png", "combined_plots.png"}

NoReport == [written |-> FALSE]
NoCsv == [header |-> <<>>, lines |-> <<>>]

InitRest ==
    /\ col_i = 1
    /\ again = NoTable
    /\ gdf = NoTable
    /\ monthly_stats = <<>>
    /\ season_stats = <<>>
    /\ csv = NoCsv
    /\ report = NoReport
    /\ err = "none"

\* main() has loaded the file and calls clean_weather_data.
Init ==
    /\ raw \in Tables(MainInputRows, MaxMainRows)
    /\ df = raw
    /\ pc = "clean_57"
    /\ stats = <<>>
    /\ files = {}
    /\ InitRest

InitClean ==
    /\ raw \in Tables(CleanInputRows, MaxRows)
    /\ df = raw
    /\ pc = "clean_57"
    /\ stats = <<>>
    /\ files = {}
    /\ InitRest

\* main() is about to call group_by_month_and_season.
InitSeason ==
    /\ raw \in Tables(SeasonInputRows, MaxSeasonRows)
    /\ df = reset_index(clean_weather_data(raw))
    /\ pc = "main_330"
    /\ stats = compute_statistics(df)
    /\ files = Pngs
    /\ InitRest

(***************************************************************************)
(* clean_weather_data, statement by statement.                             *)
(***************************************************************************)
Rest == <<raw, again, stats, files, gdf, monthly_stats, season_stats, csv, report, err>>

DropEmptyRows ==
    /\ pc = "clean_57"
    /\ df' = dropna_all(df)
    /\ pc' = "clean_60"
    /\ UNCHANGED <<col_i, Rest>>

ParseDates ==
    /\ pc = "clean_60"
    /\ df' = coerce_Date(df)
    /\ pc' = "clean_61"
    /\ UNCHANGED <<col_i, Rest>>

DropBadDates ==
    /\ pc = "clean_61"
    /\ df' = dropna_Date(df)
    /\ pc' = "clean_65"
    /\ UNCHANGED <<col_i, Rest>>

SelectColumns ==
    /\ pc = "clean_65"
    /\ df' = select_known(df)
    /\ col_i' = 1
    /\ pc' = "clean_68"
    /\ UNCHANGED Rest

FillColumn ==
    /\ pc = "clean_68"
    /\ col_i <= Len(Measurements)
    /\ df' = fill_column(df, Measurements[col_i])
    /\ col_i' = col_i + 1
    /\ UNCHANGED <<pc, Rest>>

CleanReturn ==
    /\ pc = "clean_68"
    /\ col_i > Len(Measurements)
    /\ pc' = "main_318"
    /\ UNCHANGED <<df, col_i, Rest>>

\* The cleaner applied to its own output.
CleanAgain ==
    /\ pc = "main_318"
    /\ again' = clean_weather_data(df)
    /\ pc' = "again_done"
    /\ UNCHANGED <<raw, df, col_i, stats, files, gdf, monthly_stats, season_stats,
                   csv, report, err>>

(***************************************************************************)
(* The rest of main().                                                     *)
(***************************************************************************)
\* Line 89 assigns the parsed Date column to the caller's table; every Date
\* is a Timestamp by then, so no cell changes and nothing is raised.
ComputeStatistics ==
    /\ pc = "main_318"
    /\ df' = coerce_Date(df)
    /\ stats' = compute_statistics(df')
    /\ pc' = "main_321"
    /\ UNCHANGED <<raw, col_i, again, files, gdf, monthly_stats, season_stats,
                   csv, report, err>>

ResetIndex ==
    /\ pc = "main_321"
    /\ df' = reset_index(df)
    /\ pc' = "main_324"
    /\ UNCHANGED <<col_i, Rest>>

Plot(at, next, name) ==
    /\ pc = at
    /\ files' = files \cup {name}
    /\ pc' = next
    /\ UNCHANGED <<raw, df, col_i, again, stats, gdf, monthly_stats, season_stats,
                   csv, report, err>>

PlotDailyTemperature == Plot("main_324", "main_325", "temp_trend.png")
PlotMonthlyRainfall == Plot("main_325", "main_326", "monthly_rainfall.png")
PlotHumidityVsTemperature == Plot("main_326", "main_327", "humidity_vs_temperature.png")
PlotCombinedFigure == Plot("main_327", "main_330", "combined_plots.png")

\* Variant: add_season_column(df), on the caller's own table.
table_after_copy_forgotten(t) == add_season_column(t)

\* The caller's table after add_season_column(df.copy()).
caller_table(t) == t

AddSeason ==
    /\ pc = "main_330"
    /\ gdf' = add_season_column(df)
    /\ df' = caller_table(df)
    /\ pc' = "group_234"
    /\ UNCHANGED <<raw, col_i, again, stats, files, monthly_stats, season_stats,
                   csv, report, err>>

GroupAggregate ==
    /\ pc = "group_234"
    /\ monthly_stats' = groupby(gdf, "Month")
    /\ season_stats' = groupby(gdf, "Season")
    /\ pc' = "main_333"
    /\ UNCHANGED <<raw, df, col_i, again, stats, files, gdf, csv, report, err>>

ExportCleanedData ==
    /\ pc = "main_333"
    /\ csv' = to_csv(df)
    /\ files' = files \cup {"cleaned_weather_data.csv"}
    /\ pc' = "main_334"
    /\ UNCHANGED <<raw, df, col_i, again, stats, gdf, monthly_stats, season_stats,
                   report, err>>

\* idxmax has no maximum to return (no row, or no valid Rainfall): the
\* exception leaves main() before the report file is opened.
WriteSummaryReportRaises ==
    /\ pc = "main_334"
    /\ Valid(Column(df.rows, "Rainfall")) = <<>>
    /\ err' = "raised"
    /\ pc' = "aborted"
    /\ UNCHANGED <<raw, df, col_i, again, stats, files, gdf, monthly_stats,
                   season_stats, csv, report>>

WriteSummaryReport ==
    /\ pc = "main_334"
    /\ Valid(Column(df.rows, "Rainfall")) # <<>>
    /\ report' = [written |-> TRUE,
                  avg_temp |-> Mean(Column(df.rows, "Temperature")),
                  max_temp |-> Max(Column(df.rows, "Temperature")),
                  min_temp |-> Min(Column(df.rows, "Temperature")),
                  total_rainfall |-> Sum(Column(df.rows, "Rainfall")),
                  max_rain_day |-> date_text(loc(df, idxmax(df, "Rainfall"), "Date")),
                  monthly |-> monthly_stats,
                  season |-> season_stats]
    /\ files' = files \cup {"summary_report.txt"}
    /\ pc' = "done"
    /\ UNCHANGED <<raw, df, col_i, again, stats, gdf, monthly_stats, season_stats,
                   csv, err>>

Next ==
    \/ DropEmptyRows
    \/ ParseDates
    \/ DropBadDates
    \/ SelectColumns
    \/ FillColumn
    \/ CleanReturn
    \/ ComputeStatistics
    \/ ResetIndex
    \/ PlotDailyTemperature
    \/ PlotMonthlyRainfall
    \/ PlotHumidityVsTemperature
    \/ PlotCombinedFigure
    \/ AddSeason
    \/ GroupAggregate
    \/ ExportCleanedData
    \/ WriteSummaryReport
    \/ WriteSummaryReportRaises

NextClean ==
    \/ DropEmptyRows
    \/ ParseDates
    \/ DropBadDates
    \/ SelectColumns
    \/ FillColumn
    \/ CleanReturn
    \/ CleanAgain

NextSeason ==
    \/ AddSeason
    \/ GroupAggregate

Spec == Init /\ [][Next]_vars
SpecClean == InitClean /\ [][NextClean]_vars
SpecSeason == InitSeason /\ [][NextSeason]_vars

(***************************************************************************)
(* Properties.                                                             *)
(***************************************************************************)
MeasurementSet == {"Temperature", "Rainfall", "Humidity"}

NotEmptyRow(r) == \E c \in Range(raw.cols) : r[c].k # "nan"

DateParses(r) == r["Date"].k = "str" /\ ValidDate(r["Date"].f)

\* The positions in the input of the rows that are not empty and whose Date parses.
KeptPositions ==
    SelectSeq(Positions(raw),
              LAMBDA k : NotEmptyRow(raw.rows[k]) /\ DateParses(raw.rows[k]))

\* The input rows that survive the two removals, in input order.
Survivors == [j \in 1..Len(KeptPositions) |-> raw.rows[KeptPositions[j]]]

\* The column c of the surviving rows, as numbers or missing.
Original(c) == [j \in 1..Len(Survivors) |-> to_numeric(Survivors[j][c])]

OriginalValid(c) == SelectSeq(Original(c), LAMBDA x : x.k = "num")

ExpectedSum(series) == NumR(SumRat(SelectSeq(series, LAMBDA x : x.k = "num")))

ExpectedMean(series) ==
    LET valid == SelectSeq(series, LAMBDA x : x.k = "num")
    IN  IF valid = <<>> THEN NaN ELSE NumR(RatDivInt(SumRat(valid), Len(valid)))

Returned == pc = "main_318"

\* C1: every row of the table clean_weather_data returns has a valid Date
\* and a number in Temperature, Rainfall and Humidity: no missing value
\* remains in any cell.
C1_NoMissingAfterCleaning ==
    Returned =>
        \A k \in 1..Len(df.rows) :
            /\ df.rows[k]["Date"].k = "ts"
            /\ ValidDate(df.rows[k]["Date"].f)
            /\ \A c \in MeasurementSet : c \in Range(df.cols) /\ df.rows[k][c].k = "num"

\* C2: in the returned table a measurement cell that was a number (or the
\* text of one) keeps its value, and a cell that was missing or not numeric
\* holds the mean of the values of its own column that were valid in the
\* surviving rows before any cell was filled (the mean of no value being
\* NaN, as pandas computes it).
C2_ImputedWithColumnMean ==
    Returned =>
        /\ Len(df.rows) = Len(Survivors)
        /\ \A c \in MeasurementSet : \A k \in 1..Len(df.rows) :
               df.rows[k][c] = IF Original(c)[k].k = "num"
                               THEN Original(c)[k]
                               ELSE ExpectedMean(Original(c))

\* C2 witness: a column with two valid values and a cell to fill.
C2_Witness ==
    /\ Returned
    /\ \E c \in MeasurementSet :
           /\ Len(OriginalValid(c)) >= 2
           /\ \E k \in 1..Len(Survivors) : Original(c)[k].k = "nan"
           /\ \E k \in 1..Len(Survivors) :
                  Original(c)[k].k = "num" /\ Original(c)[k] # ExpectedMean(Original(c))

\* C3: the cleaner applied to its own output returns that same table: no
\* row dropped, no cell changed.
C3_Idempotent == pc = "again_done" => again = df

\* C3 witness: the first pass dropped rows and filled cells, the second ran.
C3_Witness ==
    /\ pc = "again_done"
    /\ Len(df.rows) >= 2
    /\ Len(df.rows) < Len(raw.rows)
    /\ \E c \in MeasurementSet : \E k \in 1..Len(Survivors) : Original(c)[k].k = "nan"

\* C4: the rows returned are exactly the input rows that are not entirely
\* empty and whose Date parses, in input order; the empty rows go first
\* (the table then holds every other row with its cells as read), the rows
\* with an unparseable Date next (the measurements still as read), and no
\* error is raised.
C4_RowsKept ==
    /\ pc \in {"clean_57", "clean_60", "clean_61", "clean_65", "clean_68", "main_318"}
           => err = "none"
    /\ pc = "clean_60" =>
           df = TakeRows(raw, SelectSeq(Positions(raw),
                                        LAMBDA k : NotEmptyRow(raw.rows[k])))
    /\ pc = "clean_65" =>
           /\ df.index = [j \in 1..Len(KeptPositions) |-> raw.index[KeptPositions[j]]]
           /\ \A j \in 1..Len(df.rows) : \A c \in MeasurementSet :
                  df.rows[j][c] = Survivors[j][c]
    /\ Returned =>
           /\ df.index = [j \in 1..Len(KeptPositions) |-> raw.index[KeptPositions[j]]]
           /\ Len(df.rows) = Len(KeptPositions)
           /\ \A j \in 1..Len(df.rows) :
                  /\ df.rows[j]["Date"].k = "ts"
                  /\ df.rows[j]["Date"].f = Survivors[j]["Date"].f

\* C4 witness: an empty row and a row with an unparseable Date were removed.
C4_Witness ==
    /\ Returned
    /\ Len(df.rows) >= 1
    /\ \E k \in 1..Len(raw.rows) : ~NotEmptyRow(raw.rows[k])
    /\ \E k \in 1..Len(raw.rows) : NotEmptyRow(raw.rows[k]) /\ ~DateParses(raw.rows[k])

DateBefore(a, b) ==
    \/ a[1] < b[1]
    \/ a[1] = b[1] /\ a[2] < b[2]
    \/ a[1] = b[1] /\ a[2] = b[2] /\ a[3] < b[3]

\* The positions of the rows that hold the largest Rainfall.
TiedPositions ==
    LET rain == Column(df.rows, "Rainfall")
    IN  {k \in 1..Len(rain) :
            /\ rain[k].k = "num"
            /\ \A j \in 1..Len(rain) : rain[j].k = "num" => ~RatLess(rain[k].v, rain[j].v)}

SortedByDate ==
    \A k \in 1..(Len(df.rows) - 1) :
        ~DateBefore(df.rows[k + 1]["Date"].f, df.rows[k]["Date"].f)

\* C5 as stated: when rows tie for the largest Rainfall, the report names
\* the earliest date among them, whatever the order of the rows.
C5_EarliestAmongTies ==
    (pc = "done" /\ Cardinality(TiedPositions) >= 2) =>
        \A k \in TiedPositions :
            ~DateBefore(df.rows[k]["Date"].f, report.max_rain_day.f)

\* C5 amended: when rows tie for the largest Rainfall, the report names the
\* date of the first of them in table order, which is the earliest date
\* among them when the rows are in ascending date order.
C5_FirstAmongTies ==
    (pc = "done" /\ Cardinality(TiedPositions) >= 2) =>
        LET first == CHOOSE k \in TiedPositions : \A j \in TiedPositions : k <= j
        IN  /\ report.max_rain_day.k = "str"
            /\ report.max_rain_day.f = df.rows[first]["Date"].f
            /\ SortedByDate =>
                   \A k \in TiedPositions :
                       ~DateBefore(df.rows[k]["Date"].f, report.max_rain_day.f)

\* C5 witness: two rows tie and the first of them is the later day.
C5_Witness ==
    /\ pc = "done"
    /\ \E k \in TiedPositions : \E j \in TiedPositions :
           k < j /\ DateBefore(df.rows[j]["Date"].f, df.rows[k]["Date"].f)

SeasonMonths ==
    [Winter |-> {12, 1, 2}, Spring |-> {3, 4, 5},
     Summer |-> {6, 7, 8}, Autumn |-> {9, 10, 11}]

RowsOfMonths(months) == SelectSeq(df.rows, LAMBDA r : r["Date"].f[2] \in months)

Grouped == pc \in {"main_333", "main_334", "done", "aborted"}

\* C6 as stated: the seasonal view holds a rainfall total for each of the
\* four seasons, the sum over the rows of that season, 0 for a season with
\* no row.
C6_TotalForEverySeason ==
    Grouped =>
        \A s \in Seasons :
            /\ s \in DOMAIN season_stats
            /\ season_stats[s].Rainfall =
                   ExpectedSum(Column(RowsOfMonths(SeasonMonths[s]), "Rainfall"))

\* C6 amended: the seasonal view holds a rainfall total for exactly the
\* seasons that have at least one cleaned row, the sum of the Rainfall of
\* the rows of that season; a season with no row has no entry.
C6_TotalForSeasonsWithRows ==
    Grouped =>
        /\ DOMAIN season_stats = {s \in Seasons : RowsOfMonths(SeasonMonths[s]) # <<>>}
        /\ \A s \in DOMAIN season_stats :
               season_stats[s].Rainfall =
                   ExpectedSum(Column(RowsOfMonths(SeasonMonths[s]), "Rainfall"))

\* C6 witness: a season with two rows of rain and a season with none.
C6_Witness ==
    /\ Grouped
    /\ \E s \in Seasons : RowsOfMonths(SeasonMonths[s]) = <<>>
    /\ \E s \in Seasons :
           /\ Len(RowsOfMonths(SeasonMonths[s])) >= 2
           /\ \E k \in 1..Len(RowsOfMonths(SeasonMonths[s])) :
                  LET x == RowsOfMonths(SeasonMonths[s])[k]["Rainfall"]
                  IN  x.k = "num" /\ x.v[1] > 0

ExpectedStats(rows) ==
    [Temperature |-> ExpectedMean(Column(rows, "Temperature")),
     Rainfall |-> ExpectedSum(Column(rows, "Rainfall")),
     Humidity |-> ExpectedMean(Column(rows, "Humidity"))]

\* C7: the month view has one entry per month number that has a row,
\* whatever the year, holding the mean Temperature, the total Rainfall and
\* the mean Humidity of exactly the rows of that month; the season view
\* holds the same aggregates over the rows of each season that has a row.
C7_MonthAndSeasonAggregates ==
    Grouped =>
        /\ DOMAIN monthly_stats = {r["Date"].f[2] : r \in Range(df.rows)}
        /\ \A m \in DOMAIN monthly_stats :
               monthly_stats[m] = ExpectedStats(RowsOfMonths({m}))
        /\ DOMAIN season_stats = {s \in Seasons : RowsOfMonths(SeasonMonths[s]) # <<>>}
        /\ \A s \in DOMAIN season_stats :
               season_stats[s] = ExpectedStats(RowsOfMonths(SeasonMonths[s]))

\* C7 witness: one month number holds rows of two years with different values.
C7_Witness ==
    /\ Grouped
    /\ \E a \in Range(df.rows) : \E b \in Range(df.rows) :
           /\ a["Date"].f[2] = b["Date"].f[2]
           /\ a["Date"].f[1] # b["Date"].f[1]
           /\ a["Temperature"] # b["Temperature"]
           /\ a["Date"].f[2] # a["Date"].f[3]

\* C8: add_season_column gives every row the month number of its own Date
\* and the season of that month: 12, 1, 2 Winter; 3, 4, 5 Spring; 6, 7, 8
\* Summer; 9, 10, 11 Autumn; the other cells are left as they were.
C8_SeasonOfMonth ==
    pc \in {"group_234", "main_333"} =>
        /\ gdf.cols = df.cols \o <<"Month", "Season">>
        /\ Len(gdf.rows) = Len(df.rows)
        /\ \A k \in 1..Len(gdf.rows) :
               /\ gdf.rows[k]["Month"] = df.rows[k]["Date"].f[2]
               /\ gdf.rows[k]["Month"] \in SeasonMonths[gdf.rows[k]["Season"]]
               /\ gdf.rows[k]["Season"] \in Seasons
               /\ \A c \in Range(df.cols) : gdf.rows[k][c] = df.rows[k][c]

\* C8 witness: a December row and an autumn row have their seasons.
C8_Witness ==
    /\ pc = "group_234"
    /\ \E k \in 1..Len(gdf.rows) : gdf.rows[k]["Month"] = 12
    /\ \E k \in 1..Len(gdf.rows) : gdf.rows[k]["Month"] \in {9, 10, 11}

AfterCleaning ==
    pc \in {"main_318", "main_321", "main_324", "main_325", "main_326", "main_327",
            "main_330", "group_234", "main_333", "main_334"}

\* C9: once clean_weather_data has returned, no later step of main changes
\* the rows, the columns or the cells of the cleaned table, and the
\* exported csv has the header Date, Temperature, Rainfall, Humidity and one
\* line of those four fields per retained record.
C9_ReadOnlyAfterCleaning ==
    /\ [][AfterCleaning => (df'.cols = df.cols /\ df'.rows = df.rows)]_vars
    /\ [](pc \in {"main_334", "done", "aborted"} =>
            /\ csv.header = <<"Date", "Temperature", "Rainfall", "Humidity">>
            /\ Len(csv.lines) = Len(KeptPositions)
            /\ \A k \in 1..Len(csv.lines) :
                   /\ Len(csv.lines[k]) = Len(csv.header)
                   /\ csv.lines[k][1].f = Survivors[k]["Date"].f)

\* C9 witness: the run ended with an export of several records, fewer than read.
C9_Witness ==
    /\ pc = "done"
    /\ Len(csv.lines) >= 2
    /\ Len(csv.lines) < Len(raw.rows)
    /\ gdf.cols # df.cols

\* A measurement column with no valid value among the surviving rows.
Degenerate(c) == OriginalValid(c) = <<>>

====
